---- MODULE Spec2Model ----
(***************************************************************************)
(* A model of kdam's progress bar: the update/throttle/render/write        *)
(* pipeline of src/src/std_bar.rs (struct Bar) and the monitor thread of   *)
(* src/src/thread/monitor.rs.                                              *)
(*                                                                         *)
(* Spec      one bar driven by one caller, with the clock.                 *)
(* SpecStack two threads, each with its own bar on its own terminal row,   *)
(*           writing frames to the shared terminal.                        *)
(* SpecTerm  the same threads, also clearing and writing messages.         *)
(* SpecMon   a work loop and the monitor thread sharing one bar.           *)
(*                                                                         *)
(* Time passes in ticks.  The Instant `timer` is held as its age, the ticks *)
(* since Instant::now() produced it, so timer.elapsed() is the field       *)
(* itself and a tick ages it.  A Bar is a record with the struct's field   *)
(* names; every method is an operator from the bar to the new bar and the  *)
(* terminal commands it emits.                                             *)
(***************************************************************************)
EXTENDS Integers, Sequences, FiniteSets, TLC

\* ------------------------------------------------------------------ bounds
MaxTime == 3
MaxTotal == 2
SpinnerLen == 2
MaxN == MaxTotal + 1
MaxMiniters == MaxN + 1
MaxPosition == 2
MaxRow == 1
Steps == {0, 1, 2}
\* Bar::default().mininterval (0.1 s) in clock ticks.
MinInterval == 2

None == 0 - 1

\* The arguments of set_position (the start, the total, past the total) and
\* of reset (None, the indefinite total 0, a total).
SetPositions == {0, MaxTotal, MaxN}
ResetTotals == {None, 0, MaxTotal}

VARIABLES
    pb,        \* the Bar (struct Bar, with its BarInternal)
    op,        \* the public operation called last
    term,      \* the terminal commands that operation emitted, in order
    run,       \* calls and frames of a bar driven by update(1) calls alone
    bars,      \* SpecStack, SpecTerm: each thread's own Bar
    pend,      \* the terminal commands each thread's call has yet to execute
    lock,      \* the holder of the process-wide output lock, 0 when free
    cursor,    \* the cursor's row below the resting line
    row,       \* the row each thread's last frame was written on
    mutex,     \* SpecMon: the holder of the shared bar's Mutex
    mpc,       \* where the monitor thread is in its loop
    wpc,       \* where the work loop is
    poll       \* what the monitor saw and did since it last took the Mutex

svars == <<pb, op, term, run>>

tvars == <<bars, pend, lock, cursor, row>>

mvars == <<mutex, mpc, wpc, poll>>

vars == <<pb, op, term, run, bars, pend, lock, cursor, row, mutex, mpc, wpc,
          poll>>

\* ------------------------------------------------------------ the struct
BarInternal_default ==
    [started |-> FALSE, elapsed_time |-> 0, timer |-> 0,
     force_refresh |-> FALSE, spinner |-> [set |-> "classic", idx |-> 0]]

Bar_default ==
    [total |-> 0, leave |-> TRUE, mininterval |-> MinInterval, miniters |-> 1,
     dynamic_miniters |-> FALSE, disable |-> FALSE, initial |-> 0,
     position |-> 0, delay |-> 0, animation |-> "TqdmAscii",
     max_fps |-> FALSE, n |-> 0, internal |-> BarInternal_default]

\* ----------------------------------------------------- terminal commands
NoFrame ==
    [kind |-> "none", num |-> 0, den |-> 1, pct |-> 0, count |-> 0,
     total |-> 0, elapsed |-> 0, glyph |-> 0]

Cmd(c, k, f) == [c |-> c, k |-> k, frame |-> f]

IsFrame(cmd) == cmd.c = "text"

Frames(out) == SelectSeq(out, IsFrame)

\* ------------------------------------------------------------- arithmetic
\* u64 arithmetic as the code's build checks it: a subtraction below zero
\* and a division or remainder by zero are faults (panics).
checked_sub(x, y) ==
    IF y > x THEN [panic |-> TRUE, v |-> 0] ELSE [panic |-> FALSE, v |-> x - y]

checked_rem(x, y) ==
    IF y = 0 THEN [panic |-> TRUE, v |-> 0] ELSE [panic |-> FALSE, v |-> x % y]

\* A panic ends the call: nothing more of it is written but the panic's
\* message, and the call does not return.
Panic == <<Cmd("panic", 0, NoFrame)>>

Panicked(out) == out # <<>> /\ out[Len(out)].c = "panic"

\* ---------------------------------------------------------------- render
\* init without the counter's return to `initial`.
init_keep_n(b) ==
    LET b2 == IF b.animation = "FiraCode"
              THEN [b EXCEPT !.internal.spinner = [set |-> "firacode", idx |-> 0]]
              ELSE b
    IN  IF b2.max_fps THEN [b2 EXCEPT !.internal.force_refresh = TRUE] ELSE b2

init(b) ==
    LET b1 == [b EXCEPT !.n = b.initial]
        b2 == IF b1.animation = "FiraCode"
              THEN [b1 EXCEPT !.internal.spinner = [set |-> "firacode", idx |-> 0]]
              ELSE b1
    IN  IF b2.max_fps THEN [b2 EXCEPT !.internal.force_refresh = TRUE] ELSE b2

\* render_unknown without the spinner's next().
render_unknown_stuck(b, i) ==
    LET elapsed == b.internal.timer
        sp == b.internal.spinner
    IN  [pb |-> [b EXCEPT !.internal.elapsed_time = elapsed],
         panic |-> FALSE,
         frame |-> [kind |-> "spinner", num |-> 0, den |-> 1, pct |-> 0,
                    count |-> i, total |-> 0, elapsed |-> elapsed,
                    glyph |-> sp.idx]]

render_unknown(b, i) ==
    LET elapsed == b.internal.timer
        sp == b.internal.spinner
    IN  [pb |-> [b EXCEPT !.internal.elapsed_time = elapsed,
                          !.internal.spinner.idx = (sp.idx + 1) % SpinnerLen],
         panic |-> FALSE,
         frame |-> [kind |-> "spinner", num |-> 0, den |-> 1, pct |-> 0,
                    count |-> i, total |-> 0, elapsed |-> elapsed,
                    glyph |-> sp.idx]]

\* progress = i / total as the fraction num / den, clamped at 1.0; the
\* percentage is its hundredfold, truncated.  First without the clamp.
render_lbar_noclamp(b, i) ==
    [num |-> i, den |-> b.total, pct |-> (i * 100) \div b.total]

render_lbar(b, i) ==
    LET num == IF i >= b.total THEN b.total ELSE i
    IN  [num |-> num, den |-> b.total, pct |-> (num * 100) \div b.total]

render_rbar(b, i) ==
    LET elapsed == b.internal.timer
    IN  [pb |-> [b EXCEPT !.internal.elapsed_time = elapsed],
         count |-> i, total |-> b.total, elapsed |-> elapsed,
         panic |-> checked_sub(b.total, i).panic]

\* render without the count's replacement by total at progress 1.
render_keep_i(b, i0) ==
    LET l == render_lbar(b, i0)
        full == l.num = l.den
    IN  IF full /\ ~b.leave
        THEN [pb |-> b, panic |-> FALSE,
              frame |-> [kind |-> "blank", num |-> l.num, den |-> l.den,
                         pct |-> l.pct, count |-> None, total |-> None,
                         elapsed |-> None, glyph |-> None]]
        ELSE LET r == render_rbar(b, i0)
             IN  [pb |-> r.pb, panic |-> r.panic,
                  frame |-> [kind |-> "bar", num |-> l.num, den |-> l.den,
                             pct |-> l.pct, count |-> r.count,
                             total |-> r.total, elapsed |-> r.elapsed,
                             glyph |-> None]]

render(b, i0) ==
    LET l == render_lbar(b, i0)
        full == l.num = l.den
        i == IF full THEN b.total ELSE i0
    IN  IF full /\ ~b.leave
        THEN [pb |-> b, panic |-> FALSE,
              frame |-> [kind |-> "blank", num |-> l.num, den |-> l.den,
                         pct |-> l.pct, count |-> None, total |-> None,
                         elapsed |-> None, glyph |-> None]]
        ELSE LET r == render_rbar(b, i)
             IN  [pb |-> r.pb, panic |-> r.panic,
                  frame |-> [kind |-> "bar", num |-> l.num, den |-> l.den,
                             pct |-> l.pct, count |-> r.count,
                             total |-> r.total, elapsed |-> r.elapsed,
                             glyph |-> None]]

\* ----------------------------------------------------------------- write
\* write_at whose cursor-up is one line short.
write_at_short_up(b, f) ==
    IF b.position = 0
    THEN <<Cmd("acquire", 0, NoFrame), Cmd("text", 0, f),
           Cmd("release", 0, NoFrame)>>
    ELSE <<Cmd("acquire", 0, NoFrame), Cmd("newlines", b.position, NoFrame),
           Cmd("text", 0, f), Cmd("up", b.position - 1, NoFrame),
           Cmd("release", 0, NoFrame)>>

\* write_at that returns without releasing the lock.
write_at_no_release(b, f) ==
    IF b.position = 0
    THEN <<Cmd("acquire", 0, NoFrame), Cmd("text", 0, f)>>
    ELSE <<Cmd("acquire", 0, NoFrame), Cmd("newlines", b.position, NoFrame),
           Cmd("text", 0, f), Cmd("up", b.position, NoFrame)>>

write_at(b, f) ==
    IF b.position = 0
    THEN <<Cmd("acquire", 0, NoFrame), Cmd("text", 0, f),
           Cmd("release", 0, NoFrame)>>
    ELSE <<Cmd("acquire", 0, NoFrame), Cmd("newlines", b.position, NoFrame),
           Cmd("text", 0, f), Cmd("up", b.position, NoFrame),
           Cmd("release", 0, NoFrame)>>

clear(b) == <<Cmd("blank", 0, NoFrame)>>

\* ---------------------------------------------------------------- update
\* The first call after construction or reset: init, then the timer starts.
start_keep_timer(b) == [init(b) EXCEPT !.internal.started = TRUE]

start(b) == [init(b) EXCEPT !.internal.timer = 0, !.internal.started = TRUE]

\* The time gate with < for <=.
mininterval_constraint_strict(b, elapsed_time_now) ==
    b.mininterval < elapsed_time_now - b.internal.elapsed_time

mininterval_constraint(b, elapsed_time_now) ==
    b.mininterval <= elapsed_time_now - b.internal.elapsed_time

\* The iteration gate that tests miniters == 1 for miniters <= 1.
miniters_constraint_eq(b) ==
    IF b.miniters = 1
    THEN [ok |-> TRUE, panic |-> FALSE]
    ELSE LET r == checked_rem(b.n, b.miniters)
         IN  [ok |-> r.v = 0, panic |-> r.panic]

miniters_constraint(b) ==
    IF b.miniters <= 1
    THEN [ok |-> TRUE, panic |-> FALSE]
    ELSE LET r == checked_rem(b.n, b.miniters)
         IN  [ok |-> r.v = 0, panic |-> r.panic]

\* The condition of the render branch, with the delay test dropped.
should_render_nodelay(b, elapsed_time_now, time_ok, iters_ok) ==
    (time_ok /\ iters_ok) \/ b.n = b.total \/ b.internal.force_refresh

should_render(b, elapsed_time_now, time_ok, iters_ok) ==
    (time_ok /\ iters_ok /\ b.delay <= elapsed_time_now)
    \/ b.n = b.total
    \/ b.internal.force_refresh

update(b, k) ==
    LET b0 == IF ~b.internal.started THEN start(b) ELSE b
        b1 == [b0 EXCEPT !.n = @ + k]
        elapsed_time_now == b1.internal.timer
        time_ok == mininterval_constraint(b1, elapsed_time_now)
        b2 == IF b1.dynamic_miniters /\ ~time_ok
              THEN [b1 EXCEPT !.miniters = @ + k]
              ELSE b1
        iters == miniters_constraint(b2)
        b3 == IF b2.dynamic_miniters THEN [b2 EXCEPT !.miniters = 0] ELSE b2
    IN  IF b1.disable
        THEN [pb |-> b1, out |-> <<>>]
        ELSE IF iters.panic
        THEN [pb |-> b2, out |-> Panic]
        ELSE IF should_render(b2, elapsed_time_now, time_ok, iters.ok)
             THEN LET r == IF b3.total # 0
                           THEN render(b3, b3.n)
                           ELSE render_unknown(b3, b3.n)
                  IN  [pb |-> r.pb,
                       out |-> IF r.panic THEN Panic
                               ELSE write_at(r.pb, r.frame)]
             ELSE [pb |-> b2, out |-> <<>>]

\* refresh that does not set the force flag before its update(0).
refresh_unforced(b) ==
    LET r == update(b, 0)
    IN  [r EXCEPT !.pb.internal.force_refresh =
                      IF Panicked(r.out) THEN @ ELSE FALSE]

\* A panic unwinds out of refresh before the flag is cleared.
refresh(b) ==
    LET r == update([b EXCEPT !.internal.force_refresh = TRUE], 0)
    IN  [r EXCEPT !.pb.internal.force_refresh =
                      IF Panicked(r.out) THEN @ ELSE FALSE]

\* reset that also zeroes the counter.
reset_zero(b, total) ==
    [b EXCEPT !.internal.started = FALSE, !.n = 0,
              !.total = IF total # None THEN total ELSE @]

reset(b, total) ==
    [b EXCEPT !.internal.started = FALSE,
              !.total = IF total # None THEN total ELSE @]

NoCall(b) == [pb |-> b, out |-> <<>>]

\* write that redraws the bar whatever leave is.
write_redraw(b) ==
    LET r == refresh(b)
    IN  [pb |-> r.pb,
         out |-> clear(b) \o <<Cmd("message", 0, NoFrame)>> \o r.out]

write(b) ==
    LET r == IF b.leave THEN refresh(b) ELSE NoCall(b)
    IN  [pb |-> r.pb,
         out |-> clear(b) \o <<Cmd("message", 0, NoFrame)>> \o r.out]

\* input that redraws the bar although the read failed.
input_redraw(b, ok) ==
    LET r == IF b.leave THEN refresh(b) ELSE NoCall(b)
    IN  [pb |-> r.pb,
         ret |-> IF ok THEN "Ok" ELSE "Err",
         out |-> clear(b) \o <<Cmd("prompt", 0, NoFrame)>> \o r.out]

\* ok: whether stdin's read_line succeeds; its error returns through `?`.
input(b, ok) ==
    LET r == IF ok /\ b.leave THEN refresh(b) ELSE NoCall(b)
    IN  [pb |-> r.pb,
         ret |-> IF ok THEN "Ok" ELSE "Err",
         out |-> clear(b) \o <<Cmd("prompt", 0, NoFrame)>> \o r.out]

set_position(b, position) == update([b EXCEPT !.n = position], 0)

set_charset(b) == [b EXCEPT !.animation = "TqdmAscii"]

\* ------------------------------------------------------------- the caller
\* n0: the counter when the operation was called.  at: for an update that
\* wrote a frame, the timer's reading at the call.  gap: for an update that
\* directly follows an update that wrote a frame, the ticks between the two
\* calls.  after: for a reset, whether it reset a completed bar to a new
\* total; for an update, the same of the reset it directly follows.
Op(name, arg) ==
    [name |-> name, arg |-> arg, n0 |-> pb.n, at |-> None, gap |-> None,
     after |-> "none", ret |-> "none"]

\* The configurations a bar is constructed with: each departs from
\* Bar::default() in the fields of one concern, and in total.
ThrottleConfigs ==
    { [Bar_default EXCEPT !.total = c[1], !.mininterval = c[2],
                             !.miniters = c[3][1][1],
                             !.dynamic_miniters = c[3][1][2],
                             !.delay = c[3][2]] :
        c \in (0..MaxTotal) \X {0, MinInterval}
              \X ((({1, 2} \X BOOLEAN) \X {0}) \cup {<<<<1, FALSE>>, 1>>}) }

PolicyConfigs ==
    { [Bar_default EXCEPT !.total = c[1], !.mininterval = c[2],
                             !.leave = c[3], !.initial = c[4]] :
        c \in (0..MaxTotal) \X {0, MinInterval} \X BOOLEAN \X {0, 1} }

ModeConfigs ==
    { [Bar_default EXCEPT !.total = c[1], !.mininterval = c[2],
                             !.max_fps = (c[3] = "max_fps"),
                             !.disable = (c[3] = "disable"),
                             !.animation = IF c[3] = "FiraCode"
                                           THEN "FiraCode" ELSE @] :
        c \in (0..MaxTotal) \X {0, MinInterval}
              \X {"max_fps", "disable", "FiraCode"} }

Configs == ThrottleConfigs \cup PolicyConfigs \cup ModeConfigs

Threads == {1, 2}

\* No thread has a bar of its own: the terminal is left alone.
NoTerminal ==
    /\ bars = [t \in Threads |-> Bar_default]
    /\ pend = [t \in Threads |-> <<>>]
    /\ lock = 0
    /\ cursor = 0
    /\ row = [t \in Threads |-> None]

\* No monitor thread was spawned.
NoMonitor ==
    /\ mutex = "free"
    /\ mpc = "none"
    /\ wpc = "none"
    /\ poll = [seen |-> "none", refreshes |-> 0]

NewOp ==
    [name |-> "new", arg |-> None, n0 |-> 0, at |-> None, gap |-> None,
     after |-> "none", ret |-> "none"]

Init ==
    /\ pb \in Configs
    /\ op = NewOp
    /\ term = <<>>
    /\ run = [calls |-> 0, frames |-> 0]
    /\ NoTerminal
    /\ NoMonitor

NoRun == [calls |-> None, frames |-> None]

Tick ==
    /\ pb.internal.timer < MaxTime
    /\ pb' = [pb EXCEPT !.internal.timer = @ + 1]
    /\ UNCHANGED <<op, term, run, tvars, mvars>>

Update(k) ==
    LET r == update(pb, k)
        w == Len(Frames(r.out))
    IN  /\ (IF pb.internal.started THEN pb.n ELSE pb.initial) + k <= MaxN
        /\ pb.miniters + k <= MaxMiniters
        /\ pb' = r.pb
        /\ term' = r.out
        /\ op' = [name |-> "update", arg |-> k, n0 |-> pb.n,
                  at |-> IF w > 0 THEN r.pb.internal.timer ELSE None,
                  gap |-> IF op.name = "update" /\ op.at # None
                          THEN pb.internal.timer - op.at ELSE None,
                  after |-> IF op.name = "reset" THEN op.after ELSE "none",
                  ret |-> IF Panicked(term') THEN "panic" ELSE "none"]
        /\ run' = IF k = 1 /\ run # NoRun
                  THEN [calls |-> run.calls + 1, frames |-> run.frames + w]
                  ELSE NoRun
        /\ UNCHANGED <<tvars, mvars>>

Other(o, r) ==
    /\ pb' = r.pb
    /\ term' = r.out
    /\ op' = [o EXCEPT !.ret = IF Panicked(term') THEN "panic" ELSE @]
    /\ run' = NoRun
    /\ UNCHANGED <<tvars, mvars>>

SetPosition(p) == Other(Op("set_position", p), set_position(pb, p))

Refresh == Other(Op("refresh", None), refresh(pb))

Clear == Other(Op("clear", None), [NoCall(pb) EXCEPT !.out = clear(pb)])

Reset(t) ==
    Other([Op("reset", t) EXCEPT
               !.after = IF pb.internal.started /\ pb.n = pb.total /\ t # None
                         THEN "completed" ELSE "other"],
          NoCall(reset(pb, t)))

Write == Other(Op("write", None), write(pb))

Input(ok) ==
    Other([Op("input", IF ok THEN 1 ELSE 0) EXCEPT !.ret = input(pb, ok).ret],
          input(pb, ok))

SetCharset == Other(Op("set_charset", None), NoCall(set_charset(pb)))

Next ==
    \/ Tick
    \/ \E k \in Steps : Update(k)
    \/ \E p \in SetPositions : SetPosition(p)
    \/ Refresh
    \/ Clear
    \/ \E t \in ResetTotals : Reset(t)
    \/ Write
    \/ \E ok \in BOOLEAN : Input(ok)
    \/ SetCharset

Spec == Init /\ [][Next]_vars

\* ------------------------------------------------ a bar used repeatedly
\* The bar is run, reset and run again.  run records whether the bar has
\* been reset, and whether no frame has been written since the timer was
\* last started.
InitRestart ==
    /\ pb \in { b \in ThrottleConfigs :
                   b.miniters = 1 /\ ~b.dynamic_miniters /\ b.delay = 0 }
    /\ op = NewOp
    /\ term = <<>>
    /\ run = [reset |-> FALSE, silent |-> TRUE]
    /\ NoTerminal
    /\ NoMonitor

RestartUpdate(k) ==
    LET r == update(pb, k)
    IN  /\ (IF pb.internal.started THEN pb.n ELSE pb.initial) + k <= MaxN
        /\ pb' = r.pb
        /\ term' = r.out
        /\ op' = [Op("update", k) EXCEPT
                     !.ret = IF Panicked(term') THEN "panic" ELSE @]
        /\ run' = [run EXCEPT
                      !.silent = (~pb.internal.started \/ @)
                                 /\ Len(Frames(term')) = 0]
        /\ UNCHANGED <<tvars, mvars>>

RestartReset(t) ==
    /\ pb' = reset(pb, t)
    /\ term' = <<>>
    /\ op' = Op("reset", t)
    /\ run' = [reset |-> TRUE, silent |-> TRUE]
    /\ UNCHANGED <<tvars, mvars>>

NextRestart ==
    \/ Tick
    \/ \E k \in Steps : RestartUpdate(k)
    \/ \E t \in ResetTotals : RestartReset(t)

SpecRestart == InitRestart /\ [][NextRestart]_vars

\* ------------------------------------------------ threads and the terminal
\* Each thread owns one bar; the two bars are on different rows.  A call
\* changes the thread's bar and leaves the terminal commands it issues in
\* pend; the thread then executes them one at a time, other threads in
\* between.
StackConfigs(position) ==
    { [Bar_default EXCEPT !.position = position, !.total = c[1],
                             !.mininterval = 0, !.leave = c[2]] :
        c \in {0, MaxTotal} \X BOOLEAN }

InitTerm ==
    /\ bars \in { b \in [Threads -> UNION { StackConfigs(p) : p \in 0..MaxPosition }] :
                     b[1].position < b[2].position }
    /\ pend = [t \in Threads |-> <<>>]
    /\ lock = 0
    /\ cursor = 0
    /\ row = [t \in Threads |-> None]
    /\ pb = Bar_default
    /\ op = NewOp
    /\ term = <<>>
    /\ run = NoRun
    /\ NoMonitor

Call(t, r) ==
    /\ pend[t] = <<>>
    /\ bars' = [bars EXCEPT ![t] = r.pb]
    /\ pend' = [pend EXCEPT ![t] = r.out]
    /\ UNCHANGED <<lock, cursor, row, svars, mvars>>

TUpdate(t, k) ==
    /\ (IF bars[t].internal.started THEN bars[t].n ELSE bars[t].initial) + k
           <= MaxN
    /\ Call(t, update(bars[t], k))

TRefresh(t) == Call(t, refresh(bars[t]))

TClear(t) == Call(t, [pb |-> bars[t], out |-> clear(bars[t])])

TWrite(t) == Call(t, write(bars[t]))

TInput(t, ok) == Call(t, input(bars[t], ok))

\* crate::lock::acquire waits for the lock to be free; release frees it.
acquire(t) == lock = 0 /\ lock' = t

release(t) == lock' = 0

\* The terminal's cursor row after a command: a newline moves it down a
\* row, ESC[kA up k rows, a carriage return or text leaves it on its row.
cursor_after(cmd) ==
    CASE cmd.c = "newlines" -> cursor + cmd.k
      [] cmd.c = "up"       -> cursor - cmd.k
      [] cmd.c = "message"  -> cursor + 1
      [] OTHER              -> cursor

\* A thread executes the next command of its call.
Exec(t) ==
    /\ pend[t] # <<>>
    /\ LET cmd == Head(pend[t])
       IN  /\ CASE cmd.c = "acquire" -> acquire(t)
                [] cmd.c = "release" -> release(t)
                [] OTHER             -> UNCHANGED lock
           /\ cmd.c = "message" => cursor < MaxRow
           /\ cursor' = cursor_after(cmd)
           /\ row' = IF cmd.c = "text" THEN [row EXCEPT ![t] = cursor]
                     ELSE row
    /\ pend' = [pend EXCEPT ![t] = Tail(@)]
    /\ UNCHANGED <<bars, svars, mvars>>

NextStack ==
    \E t \in Threads :
        \/ \E k \in Steps : TUpdate(t, k)
        \/ TRefresh(t)
        \/ Exec(t)

SpecStack == InitTerm /\ [][NextStack]_vars

NextTerm ==
    \E t \in Threads :
        \/ \E k \in Steps : TUpdate(t, k)
        \/ TRefresh(t)
        \/ TClear(t)
        \/ TWrite(t)
        \/ \E ok \in BOOLEAN : TInput(t, ok)
        \/ Exec(t)

SpecTerm == InitTerm /\ [][NextTerm]_vars

\* ------------------------------------------------------ the monitor thread
\* monitor::bar moves the bar into an Arc<Mutex<Bar>> (here pb, guarded by
\* mutex) and spawns the monitor; the work loop calls update through its
\* handle, taking the Mutex for the call.
completed(b) == b.n = b.total

InitMon ==
    /\ pb \in Configs
    /\ op = NewOp
    /\ term = <<>>
    /\ run = NoRun
    /\ mutex = "free"
    /\ mpc = "sleep"
    /\ wpc = "idle"
    /\ poll = [seen |-> "none", refreshes |-> 0]
    /\ NoTerminal

MonTick ==
    /\ pb.internal.timer < MaxTime
    /\ pb' = [pb EXCEPT !.internal.timer = @ + 1]
    /\ UNCHANGED <<op, term, run, tvars, mvars>>

\* pb_arc.lock().unwrap().update(k): the guard lives for the statement.
WorkLock ==
    /\ wpc = "idle" /\ mutex = "free"
    /\ mutex' = "work"
    /\ wpc' = "locked"
    /\ UNCHANGED <<svars, tvars, mpc, poll>>

WorkUpdate(k) ==
    LET r == update(pb, k)
    IN  /\ wpc = "locked"
        /\ (IF pb.internal.started THEN pb.n ELSE pb.initial) + k <= MaxN
        /\ pb.miniters + k <= MaxMiniters
        /\ pb' = r.pb
        /\ term' = r.out
        /\ op' = Op("update", k)
        /\ mutex' = "free"
        /\ wpc' = "idle"
        /\ UNCHANGED <<run, tvars, mpc, poll>>

\* thread::sleep(maxinterval) returns.
MonWake ==
    /\ mpc = "sleep"
    /\ mpc' = "lock"
    /\ UNCHANGED <<svars, tvars, mutex, wpc, poll>>

\* let mut pb_monitor = pb_arc_clone.lock().unwrap();
MonLock ==
    /\ mpc = "lock" /\ mutex = "free"
    /\ mutex' = "monitor"
    /\ mpc' = "check"
    /\ poll' = [seen |-> "none", refreshes |-> 0]
    /\ UNCHANGED <<svars, tvars, wpc>>

\* The completion test that refreshes all the same.
MonCheck_no_break ==
    /\ mpc = "check"
    /\ poll' = [poll EXCEPT !.seen = IF completed(pb) THEN "complete"
                                     ELSE "incomplete"]
    /\ mpc' = "refresh"
    /\ UNCHANGED <<svars, tvars, mutex, wpc>>

\* if pb_monitor.completed() { break; }: the break drops the guard.
MonCheck ==
    /\ mpc = "check"
    /\ IF completed(pb)
       THEN /\ poll' = [poll EXCEPT !.seen = "complete"]
            /\ mpc' = "done"
            /\ mutex' = "free"
       ELSE /\ poll' = [poll EXCEPT !.seen = "incomplete"]
            /\ mpc' = "refresh"
            /\ UNCHANGED mutex
    /\ UNCHANGED <<svars, tvars, wpc>>

\* pb_monitor.refresh();
MonRefresh ==
    LET r == refresh(pb)
    IN  /\ mpc = "refresh"
        /\ pb' = r.pb
        /\ term' = r.out
        /\ op' = Op("refresh", None)
        /\ poll' = [poll EXCEPT !.refreshes = @ + 1]
        /\ mpc' = "unlock"
        /\ UNCHANGED <<run, tvars, mutex, wpc>>

\* The end of the loop body drops the guard; the loop sleeps again.
MonUnlock ==
    /\ mpc = "unlock"
    /\ mutex' = "free"
    /\ mpc' = "sleep"
    /\ UNCHANGED <<svars, tvars, wpc, poll>>

NextMon ==
    \/ MonTick
    \/ WorkLock
    \/ \E k \in Steps : WorkUpdate(k)
    \/ MonWake
    \/ MonLock
    \/ MonCheck
    \/ MonRefresh
    \/ MonUnlock

SpecMon == InitMon /\ [][NextMon]_vars

\* --------------------------------------------- the Mutex and the output lock
\* The same two threads, with the terminal commands of a call executed one
\* at a time while the caller holds the Mutex: the work loop is thread 1,
\* the monitor thread 2.
Work == 1

Mon == 2

InitLocks ==
    /\ pb \in UNION { StackConfigs(p) : p \in {0, MaxPosition} }
    /\ op = NewOp
    /\ term = <<>>
    /\ run = NoRun
    /\ mutex = "free"
    /\ mpc = "sleep"
    /\ wpc = "idle"
    /\ poll = [seen |-> "none", refreshes |-> 0]
    /\ NoTerminal

\* update(k) up to its write_at; the write is left to LockExec.
LockWorkUpdate(k) ==
    LET r == update(pb, k)
    IN  /\ wpc = "locked"
        /\ (IF pb.internal.started THEN pb.n ELSE pb.initial) + k <= MaxN
        /\ pb' = r.pb
        /\ term' = r.out
        /\ op' = Op("update", k)
        /\ pend' = [pend EXCEPT ![Work] = r.out]
        /\ wpc' = "update"
        /\ UNCHANGED <<run, bars, lock, cursor, row, mutex, mpc, poll>>

\* update has returned: the statement ends and its guard is dropped.
LockWorkUnlock ==
    /\ wpc = "update" /\ pend[Work] = <<>>
    /\ mutex' = "free"
    /\ wpc' = "idle"
    /\ UNCHANGED <<svars, tvars, mpc, poll>>

LockMonRefresh ==
    LET r == refresh(pb)
    IN  /\ mpc = "refresh"
        /\ pb' = r.pb
        /\ term' = r.out
        /\ op' = Op("refresh", None)
        /\ pend' = [pend EXCEPT ![Mon] = r.out]
        /\ poll' = [poll EXCEPT !.refreshes = @ + 1]
        /\ mpc' = "unlock"
        /\ UNCHANGED <<run, bars, lock, cursor, row, mutex, wpc>>

LockMonUnlock == pend[Mon] = <<>> /\ MonUnlock

NextLocks ==
    \/ WorkLock
    \/ \E k \in Steps : LockWorkUpdate(k)
    \/ LockWorkUnlock
    \/ MonWake
    \/ MonLock
    \/ MonCheck
    \/ LockMonRefresh
    \/ LockMonUnlock
    \/ \E t \in Threads : Exec(t)

SpecLocks == InitLocks /\ [][NextLocks]_vars

\* ------------------------------------------------- joining the monitor
\* The work loop drives the bar to completion and stops; the caller then
\* joins the monitor's handle.  Every step of the work loop advances the
\* counter; the bars have a known total and mininterval = 0.
WorkSteps == Steps \ {0}

InitJoin ==
    /\ pb \in { b \in StackConfigs(0) : b.total > 0 /\ b.leave }
    /\ op = NewOp
    /\ term = <<>>
    /\ run = NoRun
    /\ mutex = "free"
    /\ mpc = "sleep"
    /\ wpc = "idle"
    /\ poll = [seen |-> "none", refreshes |-> 0]
    /\ NoTerminal

\* The work loop has reached or passed the total and makes no more calls.
WorkDone == pb.internal.started /\ pb.n >= pb.total

JoinWorkLock == ~WorkDone /\ WorkLock

NextJoin ==
    \/ MonTick
    \/ JoinWorkLock
    \/ \E k \in WorkSteps : WorkUpdate(k)
    \/ MonWake
    \/ MonLock
    \/ MonCheck
    \/ MonRefresh
    \/ MonUnlock

\* Both threads are scheduled, and a thread that asks for the Mutex again
\* and again gets it; the clock is free to stand still.
FairJoin ==
    /\ SF_vars(JoinWorkLock)
    /\ WF_vars(\E k \in WorkSteps : WorkUpdate(k))
    /\ WF_vars(MonWake)
    /\ SF_vars(MonLock)
    /\ WF_vars(MonCheck)
    /\ WF_vars(MonRefresh)
    /\ WF_vars(MonUnlock)

SpecJoin == InitJoin /\ [][NextJoin]_vars /\ FairJoin

\* ------------------------------------------------------------- the meter
\* The bar of this part has the fields that the meter and its width are
\* computed from; it keeps Bar::default()'s leave = true, disable = false
\* and ascii = false and is configured with mininterval = 0, miniters = 1 and
\* delay = 0, so that every update renders.  A glyph is one character.
ncols_default == 10

charset_len_default == 8

\* The number of glyphs of crate::styles::TQDMCHARSET and FILLUPCHARSET.
CHARSET_len == 8

Animations == {"TqdmAscii", "Tqdm", "FillUp", "Classic", "Arrow", "FiraCode"}

BlockStyle == {"TqdmAscii", "Tqdm", "FillUp"}

\* term::colour: the escape sequence of a colour name.
colour(name) == IF name = "red" THEN "ESC[red" ELSE name

COLOUR_RESET == "ESC[reset"

\* What term::get_columns reports (0: not a terminal), the lengths of the
\* text around the meter (lbar and rbar together), the widths a caller
\* fixes and the sizes of the glyph sets a caller passes to set_charset.
Columns == {0, 8, 9}

TextLens == {2, 3}

FixedNcols == {2, ncols_default}

GlyphSets == {1, 2}

MeterBar(total, fixed, dynamic, col, anim) ==
    [total |-> total, n |-> 0, initial |-> 0,
     ncols |-> IF fixed = None THEN ncols_default ELSE fixed,
     dynamic_ncols |-> dynamic, colour |-> col, animation |-> anim,
     internal |-> [started |-> FALSE, force_refresh |-> FALSE,
                   user_ncols |-> 0 - 1, bar_length |-> 0,
                   charset_len |-> charset_len_default]]

set_colour(b, col) ==
    [b EXCEPT !.colour = IF col # "default" THEN colour(col) ELSE "default"]

set_charset_len(b, len) ==
    [b EXCEPT !.internal.charset_len = len, !.animation = "TqdmAscii"]

meter_init(b) ==
    LET b1 == [b EXCEPT !.n = b.initial,
                        !.internal.user_ncols =
                            IF b.ncols # 10 THEN b.ncols ELSE @]
        b2 == set_colour(b1, b1.colour)
    IN  IF b2.animation \in {"Tqdm", "FillUp"}
        THEN set_charset_len(b2, CHARSET_len)
        ELSE b2

\* probed: whether term::get_columns was called.
set_ncols(b, lbar_rbar_len, columns) ==
    IF b.dynamic_ncols
       \/ (lbar_rbar_len + b.ncols + 2 - b.internal.bar_length) > 0
    THEN IF b.internal.user_ncols # 0 - 1
         THEN [pb |-> [b EXCEPT !.ncols = b.internal.user_ncols],
               probed |-> FALSE]
         ELSE [probed |-> TRUE,
               pb |-> IF columns # 0
                      THEN LET new_ncols == columns - lbar_rbar_len - 3
                           IN  IF new_ncols >= 0
                               THEN [b EXCEPT !.ncols = new_ncols]
                               ELSE b
                      ELSE [b EXCEPT !.ncols = 10,
                                     !.internal.user_ncols =
                                         IF ~b.dynamic_ncols THEN 10 ELSE @]]
    ELSE [pb |-> b, probed |-> FALSE]

NoMeter == [panic |-> FALSE, text |-> <<>>, full |-> 0, frac |-> None, fill |-> 0]

\* The glyph run of the meter at progress num / den: full, frac and fill are
\* the number of full glyphs, the index of the transitional glyph and the
\* number of fill glyphs.
bar_animation(b, num, den) ==
    IF b.animation \in BlockStyle
    THEN LET nsyms == checked_sub(b.internal.charset_len, 1)
             d == checked_rem((num * b.ncols * nsyms.v) \div den, nsyms.v)
             bar_length == IF nsyms.v = 0 THEN 0
                           ELSE ((num * b.ncols * nsyms.v) \div den) \div nsyms.v
             partial == bar_length < b.ncols
         IN  [panic |-> \/ nsyms.panic
                        \/ d.panic
                        \/ partial /\ d.v + 1 >= b.internal.charset_len
                        \/ partial /\ b.ncols - bar_length - 1 < 0,
              full |-> bar_length,
              frac |-> IF partial THEN d.v + 1 ELSE None,
              fill |-> IF partial THEN b.ncols - bar_length - 1 ELSE 0]
    ELSE LET block == (b.ncols * num) \div den
             x == b.ncols - block - 1
         IN  IF b.animation = "Arrow"
             THEN [panic |-> block < 0, full |-> block,
                   frac |-> IF x > 0 THEN 0 ELSE None,
                   fill |-> IF x > 0 THEN x ELSE 0]
             ELSE [panic |-> block < 0 \/ b.ncols - block < 0, full |-> block,
                   frac |-> None, fill |-> b.ncols - block]

\* The meter as the sequence of its parts; "run" stands for the glyph run.
render_mbar(b, num, den) ==
    LET a == bar_animation(b, num, den)
        bar_end == IF num >= den THEN "EE05" ELSE "EE02"
        text ==
            IF b.animation \in BlockStyle
            THEN IF b.colour = "default"
                 THEN <<"|", "run", "|">>
                 ELSE <<"|", b.colour, "run", COLOUR_RESET, "|">>
            ELSE IF b.animation \in {"Classic", "Arrow"}
            THEN IF b.colour = "default"
                 THEN <<"[", "run", "]">>
                 ELSE <<"[", b.colour, "run", COLOUR_RESET, "]">>
            ELSE IF b.colour = "default"
                 THEN <<b.colour, "EE03", "run", bar_end, COLOUR_RESET>>
                 ELSE <<"EE03", "run", bar_end>>
    IN  [panic |-> a.panic, text |-> text, full |-> a.full, frac |-> a.frac,
         fill |-> a.fill]

\* render(i) with leave = true; len is lbar.len() + rbar.len().
meter_render(b, i0, columns, len) ==
    LET num == IF i0 >= b.total THEN b.total ELSE i0
        i == IF num = b.total THEN b.total ELSE i0
        rbar == checked_sub(b.total, i)
        w == set_ncols(b, len + 1, columns)
    IN  IF rbar.panic
        THEN [pb |-> b, panic |-> TRUE, probed |-> FALSE, mbar |-> NoMeter]
        ELSE IF w.pb.ncols <= 0
        THEN [pb |-> w.pb, panic |-> FALSE, probed |-> w.probed,
              mbar |-> NoMeter]
        ELSE LET m == render_mbar(w.pb, num, b.total)
             IN  [pb |-> w.pb, panic |-> m.panic, probed |-> w.probed,
                  mbar |-> m]

\* The frame of a call: the meter, its width, and the text length and the
\* terminal width the call worked with.
MeterFrame(r, columns, len) ==
    [kind |-> "bar", ncols |-> r.pb.ncols, mbar |-> r.mbar,
     columns |-> columns, len |-> len, probed |-> r.probed]

\* update(k) where every gate passes.
meter_update(b, k, columns, len) ==
    LET b0 == IF ~b.internal.started
              THEN [meter_init(b) EXCEPT !.internal.started = TRUE]
              ELSE b
        b1 == [b0 EXCEPT !.n = @ + k]
    IN  IF b1.total # 0
        THEN LET r == meter_render(b1, b1.n, columns, len)
                 b2 == [r.pb EXCEPT !.internal.bar_length = len + r.pb.ncols + 2]
             IN  IF r.panic
                 THEN [pb |-> r.pb, out |-> Panic, probed |-> r.probed]
                 ELSE [pb |-> b2, probed |-> r.probed,
                       out |-> <<Cmd("text", 0, MeterFrame(r, columns, len))>>]
        ELSE [pb |-> [b1 EXCEPT !.internal.bar_length = len],
              probed |-> FALSE,
              out |-> <<Cmd("text", 0,
                            [kind |-> "unknown", ncols |-> b1.ncols,
                             mbar |-> NoMeter, columns |-> columns,
                             len |-> len, probed |-> FALSE])>>]

\* The cells a frame takes on its line: the text around the meter, and the
\* meter's two brackets and glyph run (colour sequences take no cell).
FrameWidth(f) ==
    IF f.kind = "bar" /\ f.ncols > 0
    THEN f.len + 2 + f.mbar.full + (IF f.mbar.frac # None THEN 1 ELSE 0)
         + f.mbar.fill
    ELSE f.len

\* clear() on a bar that writes to the terminal: "\r", the blanks, "\r".
\* k is the number of blanks.
meter_clear(b, columns) ==
    <<Cmd("blank",
          IF columns = 0 THEN b.internal.bar_length ELSE columns,
          NoFrame)>>

meter_refresh(b, columns, len) ==
    LET r == meter_update([b EXCEPT !.internal.force_refresh = TRUE], 0,
                          columns, len)
    IN  [r EXCEPT !.pb.internal.force_refresh =
                      IF Panicked(r.out) THEN @ ELSE FALSE]

\* run: the width the caller fixed (None: left to the terminal), whether
\* a probe that reported 0 has pinned the fallback width, and the cells of
\* the frame written last (None: no frame yet).
InitRender ==
    /\ \E total \in 1..MaxTotal, fixed \in {None} \cup FixedNcols,
          dynamic \in BOOLEAN, col \in {"default", "red"},
          anim \in Animations :
          /\ pb = MeterBar(total, fixed, dynamic, col, anim)
          /\ run = [fixed |-> fixed, pinned |-> FALSE, width |-> None]
    /\ op = NewOp
    /\ term = <<>>
    /\ NoTerminal
    /\ NoMonitor

Drawn(o, r, columns) ==
    /\ pb' = r.pb
    /\ term' = r.out
    /\ op' = [o EXCEPT !.ret = IF Panicked(term') THEN "panic" ELSE @]
    /\ run' = [run EXCEPT !.pinned = @ \/ (/\ r.probed /\ columns = 0
                                           /\ ~pb.dynamic_ncols),
                          !.width = IF Frames(term') # <<>>
                                    THEN FrameWidth(term'[1].frame)
                                    ELSE @]
    /\ UNCHANGED <<tvars, mvars>>

Quiet(o, b) ==
    /\ pb' = b
    /\ term' = <<>>
    /\ op' = o
    /\ UNCHANGED <<run, tvars, mvars>>

\* A bar whose last call panicked is gone: the panic unwinds the caller.
Alive == op.ret # "panic"

MeterUpdate(k, columns, len) ==
    /\ Alive
    /\ (IF pb.internal.started THEN pb.n ELSE pb.initial) + k <= MaxN
    /\ Drawn(Op("update", k), meter_update(pb, k, columns, len), columns)

MeterRefresh(columns, len) ==
    /\ Alive
    /\ Drawn(Op("refresh", None), meter_refresh(pb, columns, len), columns)

MeterSetPosition(p, columns, len) ==
    /\ Alive
    /\ Drawn(Op("set_position", p),
             meter_update([pb EXCEPT !.n = p], 0, columns, len), columns)

MeterClear(columns) ==
    /\ Alive
    /\ term' = meter_clear(pb, columns)
    /\ op' = Op("clear", columns)
    /\ UNCHANGED <<pb, run, tvars, mvars>>

MeterReset(t) == Alive /\ Quiet(Op("reset", t), reset(pb, t))

MeterSetColour(col) == Alive /\ Quiet(Op("set_colour", None), set_colour(pb, col))

MeterSetCharset(len) ==
    Alive /\ Quiet(Op("set_charset", len), set_charset_len(pb, len))

NextRender ==
    \/ \E k \in Steps, c \in Columns, l \in TextLens : MeterUpdate(k, c, l)
    \/ \E c \in Columns, l \in TextLens : MeterRefresh(c, l)
    \/ \E p \in SetPositions, c \in Columns, l \in TextLens :
          MeterSetPosition(p, c, l)
    \/ \E c \in Columns : MeterClear(c)
    \/ \E t \in {None, MaxTotal} : MeterReset(t)
    \/ \E col \in {"default", "red"} : MeterSetColour(col)
    \/ \E len \in GlyphSets : MeterSetCharset(len)

SpecRender == InitRender /\ [][NextRender]_vars

\* ------------------------------------------------------------ the claims
\* A step that is a call of a public operation (a tick only ages the timer).
Called(name) ==
    /\ pb'.internal.timer # pb.internal.timer + 1
    /\ op'.name = name

FrameAt(out, i) == Frames(out)[i].frame

Wrote(out) == Len(Frames(out))

\* The throttle's decision for the update(k) call of this step, read off the
\* bar before the call and the clock, flag and counter the call works with.
C1_Gates ==
    LET k == op'.arg
        elapsed == pb'.internal.timer
        time_gate == pb.mininterval <= elapsed - pb.internal.elapsed_time
        m == IF pb.dynamic_miniters /\ ~time_gate
             THEN pb.miniters + k ELSE pb.miniters
        iter_gate == m <= 1 \/ pb'.n % m = 0
    IN  \/ time_gate /\ iter_gate /\ pb.delay <= elapsed
        \/ pb'.n = pb.total
        \/ pb'.internal.force_refresh

C1_Lazy ==
    IF pb.internal.started
    THEN pb
    ELSE [pb EXCEPT !.internal.started = TRUE, !.internal.timer = 0,
                    !.internal.spinner = pb'.internal.spinner]

C2_Throttle ==
    (/\ op.name = "update" /\ op.gap # None /\ op.gap < MinInterval
     /\ pb.mininterval = MinInterval /\ pb.miniters = 1
     /\ ~pb.dynamic_miniters /\ pb.delay = 0
     /\ ~pb.internal.force_refresh /\ ~pb.disable)
    => (Wrote(term) = 0 \/ pb.n = pb.total)

\* The same for a bar that keeps its final frame (leave = true).
C2_ThrottleLeave == pb.leave => C2_Throttle

C3_Config ==
    /\ pb.total >= 1 /\ pb.initial = 0 /\ pb.mininterval = 0
    /\ pb.miniters = 1 /\ ~pb.dynamic_miniters
    /\ pb.delay = 0 /\ ~pb.disable
    /\ run # NoRun /\ run.calls >= 1 /\ run.calls <= pb.total

C3_Frames ==
    /\ run.frames = run.calls
    /\ Wrote(term) = 1
    /\ run.calls = pb.total =>
          /\ FrameAt(term, 1).kind = "bar"
          /\ FrameAt(term, 1).count = pb.total
          /\ FrameAt(term, 1).total = pb.total
          /\ FrameAt(term, 1).pct = 100

C5_Step(first) ==
    /\ \A i \in 1..Wrote(term') : FrameAt(term', i).kind = "spinner"
    /\ Wrote(term') <= 1
    /\ IF Wrote(term') = 1
       THEN /\ FrameAt(term', 1).glyph = first
            /\ pb'.internal.spinner.idx = (first + 1) % SpinnerLen
       ELSE pb'.internal.spinner.idx = first

\* C5 as stated: while total = 0 every frame is the spinner summary, and
\* the spinner advances exactly one step per written frame.
C5_SpinnerStepsPerFrame ==
    [][(pb.total = 0 /\ pb'.total = 0
        /\ pb'.internal.timer # pb.internal.timer + 1)
       => C5_Step(pb.internal.spinner.idx)]_vars

\* C5 amended: the same, except that with the FiraCode animation the first
\* call after construction or reset restarts the spinner at its first glyph.
C5_SpinnerSteps ==
    [][(pb.total = 0 /\ pb'.total = 0
        /\ pb'.internal.timer # pb.internal.timer + 1)
       => C5_Step(IF /\ ~pb.internal.started /\ pb'.internal.started
                     /\ pb.animation = "FiraCode"
                  THEN 0 ELSE pb.internal.spinner.idx)]_vars

C5_Witness ==
    /\ pb.total = 0
    /\ op.name = "write"
    /\ Wrote(term) = 1
    /\ FrameAt(term, 1).kind = "spinner"
    /\ FrameAt(term, 1).glyph = SpinnerLen - 1
    /\ pb.internal.spinner.idx = 0

C7_ResetRestarts ==
    [][/\ (op.name = "reset" /\ op.after = "completed" /\ Called("update")) =>
             /\ pb'.total = op.arg
             /\ pb'.n = pb.initial + op'.arg
             /\ pb'.internal.timer = 0
             /\ \A i \in 1..Wrote(term') :
                    FrameAt(term', i).kind = "bar"
                        => FrameAt(term', i).elapsed = 0
       /\ pb'.internal.timer # pb.internal.timer + 1 =>
             /\ \A i \in 1..Wrote(term') :
                    FrameAt(term', i).kind # "blank"
                        => FrameAt(term', i).elapsed = pb'.internal.timer
             /\ pb'.internal.timer # pb.internal.timer
                    => ~pb.internal.started /\ pb'.internal.timer = 0
      ]_vars

C7_Witness ==
    /\ op.name = "update" /\ op.after = "completed" /\ op.arg = 1
    /\ pb.n = pb.initial + 1 /\ pb.n < op.n0
    /\ Wrote(term) = 1
    /\ FrameAt(term, 1).kind = "bar"
    /\ FrameAt(term, 1).elapsed = 0

\* The commands that write to the terminal stream.
WriteCmds == {"text", "newlines", "up", "blank", "message", "prompt"}

\* C8: every write to the terminal stream (a frame, clear's blanking, the
\* message of write, the prompt of input) is made by the thread that holds
\* the output lock, so no two threads are writing at the same time.
C8_WritesUnderLock ==
    \A t \in Threads :
        (pend[t] # <<>> /\ Head(pend[t]).c \in WriteCmds) => lock = t

\* The commands of one frame write, as C9 states them for a bar at offset k.
C9_FrameWrite(k) ==
    IF k = 0
    THEN <<<<"acquire", 0>>, <<"text", 0>>, <<"release", 0>>>>
    ELSE <<<<"acquire", 0>>, <<"newlines", k>>, <<"text", 0>>, <<"up", k>>,
           <<"release", 0>>>>

C9_IsSuffix(s, w) ==
    /\ Len(s) <= Len(w)
    /\ \A i \in 1..Len(s) :
          /\ <<s[i].c, s[i].k>> = w[Len(w) - Len(s) + i]
          /\ s[i].c = "text" <=> s[i].frame.kind # "none"

\* C9: a frame write of the bar at offset k > 0 is k newlines, the frame,
\* then a cursor-up of k lines, and of the bar at offset 0 the frame alone;
\* whenever no frame write is in progress the cursor is on the resting
\* line, and every bar has written its frames on its own row only.
C9_Stacking ==
    /\ lock = 0 => cursor = 0
    /\ \A t \in Threads :
          /\ row[t] # None => row[t] = bars[t].position
          /\ C9_IsSuffix(pend[t], C9_FrameWrite(bars[t].position))
          /\ lock = t =>
                cursor = IF /\ bars[t].position > 0
                            /\ Head(pend[t]).c \in {"text", "up"}
                         THEN bars[t].position ELSE 0

\* Both bars have written a frame; the lower one is writing its next frame
\* while the other waits for the lock.
C9_Witness ==
    /\ row[1] = bars[1].position /\ row[2] = bars[2].position
    /\ bars[1].position > 0 /\ bars[2].position = MaxPosition
    /\ lock = 2 /\ cursor = MaxPosition /\ Head(pend[2]).c = "up"
    /\ pend[1] # <<>> /\ Head(pend[1]).c = "acquire"

\* C10: the monitor leaves its loop only at a poll where, holding the
\* Mutex, it sees n = total; at every poll where it does not, it makes
\* exactly one forced refresh (one frame, whatever the gates say) and then
\* releases the Mutex; after it has seen completion it never refreshes.
C10_Monitor ==
    [][/\ (mpc # "done" /\ mpc' = "done") =>
             /\ mutex = "monitor" /\ pb.n = pb.total
             /\ poll'.seen = "complete" /\ poll'.refreshes = 0
       /\ (poll.seen = "none" /\ poll'.seen = "incomplete") =>
             /\ mutex = "monitor" /\ pb.n # pb.total
             /\ mpc' # "done"
       /\ (mutex = "monitor" /\ mutex' # "monitor" /\ mpc' # "done") =>
             /\ poll.seen = "incomplete" /\ poll.refreshes = 1
       /\ poll'.refreshes > poll.refreshes =>
             /\ mutex = "monitor" /\ mutex' = "monitor"
             /\ poll'.seen = "incomplete"
             /\ poll'.refreshes <= 1
             /\ ~pb'.internal.force_refresh
             /\ ~pb.disable => Wrote(term') = 1
       /\ mpc = "done" =>
             /\ mpc' = "done" /\ poll' = poll
             /\ op'.name # "refresh" \/ op' = op
      ]_vars

\* The monitor has left its loop after a poll that refreshed a throttled
\* bar and a later one that saw it complete.
C10_Witness ==
    /\ mpc = "done" /\ poll.seen = "complete" /\ mutex = "free"
    /\ pb.n = pb.total /\ pb.total = MaxTotal
    /\ op.name = "update" /\ op.arg = 0
    /\ pb.internal.elapsed_time > 0

\* The Mutex holder of each thread, and whether the thread's next step is
\* to take the Mutex.
C11_Holder(t) == IF t = Work THEN "work" ELSE "monitor"

C11_WantsMutex(t) == IF t = Work THEN wpc = "idle" ELSE mpc = "lock"

\* A thread that cannot take its next step: it waits for a Mutex or an
\* output lock that is held, or (the monitor) has returned.
C11_Waits(t) ==
    \/ C11_WantsMutex(t) /\ mutex # "free"
    \/ pend[t] # <<>> /\ Head(pend[t]).c = "acquire" /\ lock # 0
    \/ t = Mon /\ mpc = "done"

\* C11: a thread that holds the output lock holds the bar's Mutex and is
\* not waiting for it; the Mutex is released only with the output lock
\* released; in no reachable state are both threads unable to proceed.
C11_LockOrder ==
    [][/\ \A t \in Threads :
             /\ lock' = t => (mutex' = C11_Holder(t) /\ ~C11_WantsMutex(t)')
             /\ (mutex = C11_Holder(t) /\ mutex' # C11_Holder(t)) =>
                   (lock # t /\ pend[t] = <<>>)
             /\ (lock # t /\ lock' = t) => mutex = C11_Holder(t)
       /\ ~(\A t \in Threads : C11_Waits(t)')
      ]_vars

\* The monitor holds the Mutex and waits for nothing while it writes a frame;
\* the work loop waits for the Mutex.
C11_Witness ==
    /\ mutex = "monitor" /\ lock = Mon
    /\ Head(pend[Mon]).c = "text"
    /\ wpc = "idle"
    /\ op.name = "refresh" /\ pb.internal.started /\ pb.n > 0

\* C12: with max_fps set and the bar not disabled, every update call writes
\* a frame, whatever operations came before it.
C12_MaxFpsEveryUpdate ==
    (op.name = "update" /\ op.ret # "panic" /\ pb.max_fps /\ ~pb.disable)
    => Wrote(term) = 1

\* C13: with a startup delay d > 0, no update, set_position or refresh call
\* made before d has elapsed on the bar's timer writes a frame.
C13_NoFrameBeforeDelay ==
    [][(/\ Called("update") \/ Called("set_position") \/ Called("refresh")
        /\ pb.delay > 0 /\ ~pb.disable
        /\ pb'.internal.timer < pb.delay)
       => Wrote(term') = 0
      ]_vars

\* The terminal actions of the write or input call of this step, in order:
\* the line is cleared, the message or prompt is emitted, then one frame is
\* written if redraw and nothing otherwise; n ends as given.
C14_Order(redraw, n) ==
    /\ Len(term') >= 2
    /\ term'[1].c = "blank"
    /\ term'[2].c = IF op'.name = "write" THEN "message" ELSE "prompt"
    /\ IF redraw
       THEN Wrote(SubSeq(term', 3, Len(term'))) = 1
       ELSE Len(term') = 2
    /\ Wrote(term') = IF redraw THEN 1 ELSE 0
    /\ pb'.n = n

\* C14 as stated: write and input clear the line, emit the message or
\* prompt, then redraw the bar once iff leave is true; n is unchanged.
C14_MessageThenRedraw ==
    [][(Called("write") \/ Called("input")) => C14_Order(pb.leave, pb.n)]_vars

\* C14 amended: the redraw happens iff leave is true, the bar is not
\* disabled and (for input) the read succeeded; n is unchanged unless the
\* call's refresh is the first operation after construction or reset, which
\* initialises the bar and leaves n = initial.
C14_MessageThenRefresh ==
    [][(Called("write") \/ Called("input")) =>
          LET refreshes == pb.leave /\ (op'.name = "input" => op'.arg = 1)
          IN  C14_Order(refreshes /\ ~pb.disable,
                        IF refreshes /\ ~pb.internal.started
                        THEN pb.initial ELSE pb.n)
      ]_vars

\* An input on a started bar whose read succeeded and which redrew the bar.
C14_Witness ==
    /\ op.name = "input" /\ op.arg = 1 /\ op.ret = "Ok"
    /\ pb.leave /\ ~pb.disable
    /\ Len(term) > 2 /\ term[Len(term)].c # "prompt"
    /\ Wrote(term) = 1
    /\ pb.n = op.n0 /\ pb.n > 0

\* C15: when the line read inside input fails, input returns the error as
\* an error value (no panic, no text) and the bar's counter, total, started
\* flag and force-refresh flag are as they were before the call.
C15_InputError ==
    [][(Called("input") /\ op'.arg = 0) =>
          /\ op'.ret = "Err"
          /\ pb'.n = pb.n
          /\ pb'.total = pb.total
          /\ pb'.internal.started = pb.internal.started
          /\ pb'.internal.force_refresh = pb.internal.force_refresh
      ]_vars

\* A failed read on a bar that a refresh would have initialised and redrawn:
\* the prompt is the last thing written and the bar is still not started.
C15_Witness ==
    /\ op.name = "input" /\ op.arg = 0 /\ op.ret = "Err"
    /\ pb.leave /\ ~pb.disable /\ ~pb.internal.started
    /\ Len(term) = 2 /\ term[2].c = "prompt"

\* The refresh call of this step, on a bar that is not disabled, writes
\* exactly one frame and returns with the force flag clear and n as given.
C16_Refresh(n) ==
    (Called("refresh") /\ ~pb.disable) =>
        /\ Wrote(term') = 1
        /\ ~pb'.internal.force_refresh
        /\ pb'.n = n

\* C16 as stated: refresh on a bar that is not disabled writes exactly one
\* frame whatever the gates say, leaves n unchanged and the force flag
\* clear, also as the first operation on the bar or after a reset.
C16_RefreshKeepsN == [][C16_Refresh(pb.n)]_vars

\* C16 amended: the same, except that a refresh that is the first operation
\* after construction or reset initialises the bar and leaves n = initial.
C16_RefreshOneFrame ==
    [][C16_Refresh(IF pb.internal.started THEN pb.n ELSE pb.initial)]_vars

\* A refresh that wrote a frame although the time gate, the delay and the
\* counter (n # total) all spoke against one.
C16_Witness ==
    /\ op.name = "refresh" /\ ~pb.disable
    /\ Wrote(term) = 1 /\ ~pb.internal.force_refresh
    /\ pb.mininterval = MinInterval /\ pb.delay = 1
    /\ pb.internal.timer = 0
    /\ pb.total = MaxTotal /\ pb.n = 1 /\ op.n0 = 1

\* The time gate of the update call of this step.
C17_TimeGate ==
    pb.mininterval <= pb'.internal.timer - pb.internal.elapsed_time

\* C17: with dynamic_miniters, an update(k) whose time gate fails raises
\* miniters by k (the iteration gate is decided with the raised value), an
\* update that writes a frame leaves miniters = 0, and the iteration gate
\* never takes n % miniters with miniters = 0.
C17_DynamicMiniters ==
    [][(Called("update") /\ pb.dynamic_miniters /\ ~pb.disable) =>
          /\ op'.ret # "panic"
          /\ Wrote(term') = 1 <=> C1_Gates
          /\ pb'.miniters =
                IF Wrote(term') = 1 THEN 0
                ELSE IF ~C17_TimeGate THEN pb.miniters + op'.arg
                ELSE pb.miniters
      ]_vars

\* An update that found miniters = 0 left by a frame, failed the time gate,
\* raised miniters to its step and wrote nothing.
C17_Witness ==
    /\ op.name = "update" /\ op.arg = 2 /\ op.ret = "none"
    /\ pb.dynamic_miniters /\ ~pb.disable /\ pb.internal.started
    /\ pb.miniters = 2 /\ term = <<>>
    /\ pb.mininterval = MinInterval

\* C18: no call of update, refresh or set_position raises an arithmetic
\* fault: total - i does not underflow, the meter's divmod does not divide
\* by zero (whatever non-empty glyph set set_charset was given), the
\* transitional glyph's index is inside the charset and no repeat count is
\* negative.
C18_NoArithmeticFault ==
    op.name \in {"update", "refresh", "set_position"} => op.ret # "panic"

\* The meter of the frame the last call wrote, if it wrote one with a meter.
C19_Drawn ==
    /\ op.name \in {"update", "refresh", "set_position"}
    /\ Wrote(term) = 1
    /\ FrameAt(term, 1).mbar.text # <<>>

C19_Meter == FrameAt(term, 1).mbar.text

\* C19: in every animation family, with a colour other than "default" the
\* meter's glyph run is preceded by the colour and followed by the colour
\* reset, the brackets outside the pair; with the colour "default" neither
\* the colour's value nor a reset appears in the meter.
C19_ColourWrapsRun ==
    C19_Drawn =>
        IF pb.colour # "default"
        THEN \E i \in 2..(Len(C19_Meter) - 3) :
                /\ C19_Meter[i] = pb.colour
                /\ C19_Meter[i + 1] = "run"
                /\ C19_Meter[i + 2] = COLOUR_RESET
        ELSE \A i \in 1..Len(C19_Meter) :
                C19_Meter[i] \notin {"default", COLOUR_RESET}

\* The frame the last call wrote for a bar with a known total.
C20_Drawn ==
    /\ op.name \in {"update", "refresh", "set_position"}
    /\ Wrote(term) = 1
    /\ FrameAt(term, 1).kind = "bar"

\* The width the terminal's report resolves to for the frame last written:
\* columns less the text and the overhead when that is not negative, 10 when
\* the terminal reports 0.
C20_Resolved(f) ==
    /\ f.columns = 0 => f.ncols = 10
    /\ (f.columns # 0 /\ f.columns - (f.len + 1) - 3 >= 0) =>
           f.ncols = f.columns - (f.len + 1) - 3

\* C20: a bar configured with a fixed width w renders every frame with meter
\* width w; otherwise a terminal that reports 0 gives width 10, which is
\* pinned for every later render when dynamic_ncols is false, and with
\* dynamic_ncols the width is never pinned and is resolved anew from the
\* terminal on every render.
C20_WidthResolution ==
    C20_Drawn =>
        LET f == FrameAt(term, 1)
        IN  IF run.fixed # None
            THEN f.ncols = run.fixed
            ELSE IF pb.dynamic_ncols
            THEN pb.internal.user_ncols = None /\ C20_Resolved(f)
            ELSE /\ (f.probed /\ f.columns = 0) =>
                        (f.ncols = 10 /\ pb.internal.user_ncols = 10)
                 /\ run.pinned => f.ncols = 10

\* C23: set_position(p) returns with n = p in every state of the bar, also
\* as the first operation on a new bar and as the first after a reset.
C23_SetPosition ==
    (op.name = "set_position" /\ op.ret # "panic") => pb.n = op.arg

\* C21: a clear() that follows a frame write blanks at least as many
\* columns as the frame written last takes.
C21_ClearBlanksFrame ==
    (op.name = "clear" /\ run.width # None) => term[1].k >= run.width

\* The last call wrote a frame whose meter is w >= 1 cells wide.
C22_Drawn ==
    /\ op.name \in {"update", "refresh", "set_position"}
    /\ Wrote(term) = 1
    /\ term[1].frame.kind = "bar"
    /\ term[1].frame.ncols >= 1

\* C22: in every family the glyph run of a meter of width w has exactly w
\* cells: block-style has its full glyphs and, when they are fewer than w,
\* one transitional glyph and w - full - 1 fill glyphs; solid-style has its
\* filled glyphs and w - filled fill glyphs; the arrow variant shows its tip
\* in every frame whose progress is below 1.
C22_GlyphRun ==
    C22_Drawn =>
        LET m == term[1].frame.mbar
            w == term[1].frame.ncols
        IN  /\ m.full + (IF m.frac # None THEN 1 ELSE 0) + m.fill = w
            /\ pb.animation \in BlockStyle =>
                   IF m.full < w
                   THEN m.frac # None /\ m.fill = w - m.full - 1
                   ELSE m.frac = None /\ m.fill = 0
            /\ pb.animation \in {"Classic", "FiraCode"} =>
                   m.frac = None /\ m.fill = w - m.full
            /\ (pb.animation = "Arrow" /\ pb.n < pb.total) => m.frac # None

\* C24: under fair scheduling, when the work loop updates the bar until
\* n >= total (by whatever steps) and then stops, the monitor thread
\* eventually terminates.
C24_MonitorTerminates == <>(mpc = "done")

\* C25: after a reset the time gate looks at the restarted timer only: with
\* miniters <= 1 and delay = 0, an update made mininterval or more after
\* the restart, no frame written since, writes a frame, however long the
\* bar ran and whatever elapsed time it last rendered before the reset.
C25_GateAfterRestart ==
    [][(/\ Called("update") /\ run.reset
        /\ ~pb.internal.started \/ run.silent
        /\ pb.miniters <= 1 /\ pb.delay = 0 /\ ~pb.disable
        /\ pb'.internal.timer >= pb.mininterval)
       => Wrote(term') = 1
      ]_vars
====
